---- MODULE Spec2Model ----
(***************************************************************************)
(* Model of the FAA advisory serverless functions: the write-trigger       *)
(* handler with its ingestion pipeline and detail parsers, and the read    *)
(* handler.  Text is modelled as a sequence of one-character strings, so   *)
(* that the parsers are computed character by character as the code does.  *)
(***************************************************************************)
EXTENDS Integers, Sequences, FiniteSets, TLC

\* ------------------------------------------------------------------------
\* Text primitives (the JavaScript string operations the code uses)
\* ------------------------------------------------------------------------

DigitSeq == <<"0","1","2","3","4","5","6","7","8","9">>

UpperSeq == <<"A","B","C","D","E","F","G","H","I","J","K","L","M",
              "N","O","P","Q","R","S","T","U","V","W","X","Y","Z">>

LowerSeq == <<"a","b","c","d","e","f","g","h","i","j","k","l","m",
              "n","o","p","q","r","s","t","u","v","w","x","y","z">>

Range(f) == {f[x] : x \in DOMAIN f}

DigitChars == Range(DigitSeq)

\* the regular expression class \w
WordChars == Range(UpperSeq) \cup Range(LowerSeq) \cup DigitChars \cup {"_"}

\* the value of a destructured element that the array does not have
Undefined == <<"undefined">>

\* the value of Number for a date that does not parse
NaN == -1

UpperOf == [c \in Range(LowerSeq) |-> UpperSeq[CHOOSE i \in 1..26 : LowerSeq[i] = c]]

LowerOf == [c \in Range(UpperSeq) |-> LowerSeq[CHOOSE i \in 1..26 : UpperSeq[i] = c]]

toUpperCase(s) == [i \in 1..Len(s) |-> IF s[i] \in DOMAIN UpperOf THEN UpperOf[s[i]] ELSE s[i]]

toLowerCase(s) == [i \in 1..Len(s) |-> IF s[i] \in DOMAIN LowerOf THEN LowerOf[s[i]] ELSE s[i]]

\* s.slice(a, b) with 0 <= a <= b
slice(s, a, b) == SubSeq(s, a + 1, IF b < Len(s) THEN b ELSE Len(s))

\* index of the first c in s at or after position i, 0 when there is none
RECURSIVE IndexFrom(_, _, _)
IndexFrom(s, c, i) ==
    IF i > Len(s) THEN 0
    ELSE IF s[i] = c THEN i
    ELSE IndexFrom(s, c, i + 1)

includes(s, c) == IndexFrom(s, c, 1) # 0

\* s.split(c) for a one-character separator
RECURSIVE split(_, _)
split(s, c) ==
    LET i == IndexFrom(s, c, 1)
    IN  IF i = 0 THEN <<s>>
        ELSE <<SubSeq(s, 1, i - 1)>> \o split(SubSeq(s, i + 1, Len(s)), c)

RECURSIVE trimStart(_)
trimStart(s) == IF s # <<>> /\ Head(s) = " " THEN trimStart(Tail(s)) ELSE s

RECURSIVE trimEnd(_)
trimEnd(s) ==
    IF s # <<>> /\ s[Len(s)] = " " THEN trimEnd(SubSeq(s, 1, Len(s) - 1)) ELSE s

trim(s) == trimEnd(trimStart(s))

\* s.padStart(n, c)
RECURSIVE padStart(_, _, _)
padStart(s, n, c) == IF Len(s) >= n THEN s ELSE padStart(<<c>> \o s, n, c)

\* String(n) of a number: decimal digits, or NaN
RECURSIVE NumberToString(_)
NumberToString(n) ==
    IF n = NaN THEN <<"N","a","N">>
    ELSE IF n < 10 THEN <<DigitSeq[n + 1]>>
    ELSE NumberToString(n \div 10) \o <<DigitSeq[(n % 10) + 1]>>

\* element k of a destructured array
Element(arr, k) == IF k <= Len(arr) THEN arr[k] ELSE Undefined

\* whether the literal text lit stands in s at position i
LitAt(s, i, lit) ==
    /\ i + Len(lit) - 1 <= Len(s)
    /\ \A k \in 1..Len(lit) : s[i + k - 1] = lit[k]

\* the position after the longest run of characters of class cls from i
RECURSIVE RunEnd(_, _, _)
RunEnd(s, i, cls) ==
    IF i <= Len(s) /\ s[i] \in cls THEN RunEnd(s, i + 1, cls) ELSE i

\* ------------------------------------------------------------------------
\* Results of operations that can throw
\* ------------------------------------------------------------------------

Return(v) == [ok |-> TRUE, val |-> v]

Throw(m) == [ok |-> FALSE, err |-> m]

\* ------------------------------------------------------------------------
\* Month Lookup
\* ------------------------------------------------------------------------

monthMap ==
    [k \in {<<"J","A","N">>, <<"F","E","B">>, <<"M","A","R">>, <<"A","P","R">>,
            <<"M","A","Y">>, <<"J","U","N">>, <<"J","U","L">>, <<"A","U","G">>,
            <<"S","E","P">>, <<"O","C","T">>, <<"N","O","V">>, <<"D","E","C">>} |->
        CASE k = <<"J","A","N">> -> 1
          [] k = <<"F","E","B">> -> 2
          [] k = <<"M","A","R">> -> 3
          [] k = <<"A","P","R">> -> 4
          [] k = <<"M","A","Y">> -> 5
          [] k = <<"J","U","N">> -> 6
          [] k = <<"J","U","L">> -> 7
          [] k = <<"A","U","G">> -> 8
          [] k = <<"S","E","P">> -> 9
          [] k = <<"O","C","T">> -> 10
          [] k = <<"N","O","V">> -> 11
          [] k = <<"D","E","C">> -> 12]

\* a lookup of the abbreviation as written
getMonthAsWritten(abbrev) ==
    IF abbrev = Undefined THEN Throw("TypeError")
    ELSE IF abbrev \in DOMAIN monthMap
    THEN Return(monthMap[abbrev])
    ELSE Throw("Invalid month abbreviation")

getMonth(abbrev) ==
    IF abbrev = Undefined THEN Throw("TypeError")
    ELSE LET key == toUpperCase(abbrev)
         IN  IF key \in DOMAIN monthMap
             THEN Return(monthMap[key])
             ELSE Throw("Invalid month abbreviation")

\* ------------------------------------------------------------------------
\* Date-Range Parser
\* ------------------------------------------------------------------------

\* `${year}-${String(month).padStart(2, '0')}-${day.padStart(2, '0')}`
DateString(year, month, day) ==
    NumberToString(year) \o <<"-">> \o padStart(NumberToString(month), 2, "0")
        \o <<"-">> \o padStart(day, 2, "0")

\* a parser that moves the end into the next year when its month is earlier
DatesRollingOver(year, m1, day1, m2, day2) ==
    IF m1.ok /\ m2.ok
    THEN Return(<<DateString(year, m1.val, day1),
                  DateString(IF m2.val < m1.val THEN year + 1 ELSE year, m2.val, day2)>>)
    ELSE Throw("Failed to parse date part")

\* the try block of parseDatePart once the months are looked up: the pair of
\* dates, or the exception of a lookup rethrown by the catch
Dates(year, m1, day1, m2, day2) ==
    IF m1.ok /\ m2.ok
    THEN Return(<<DateString(year, m1.val, day1), DateString(year, m2.val, day2)>>)
    ELSE Throw("Failed to parse date part")

\* format "day Mon" / "day Mon": a and b are first.split(' '), second.split(' ')
TwoMonths(a, b, year) ==
    Dates(year, getMonth(Element(a, 2)), Element(a, 1),
                getMonth(Element(b, 2)), Element(b, 1))

\* the month of the second part, for both days
SharedMonth(year, m, day1, day2) == Dates(year, m, day1, m, day2)

\* format "day1" / "day2 Mon": b is second.split(' ')
OneMonth(day1, b, year) ==
    SharedMonth(year, getMonth(Element(b, 2)), day1, Element(b, 1))

\* parseDatePart from its trimmed parts on
FromParts(parts, year) ==
    IF Len(parts) # 2 THEN Throw("Invalid date part format")
    ELSE IF includes(parts[1], " ")
    THEN TwoMonths(split(parts[1], " "), split(parts[2], " "), year)
    ELSE OneMonth(parts[1], split(parts[2], " "), year)

\* parts.map((p) => p.trim())
TrimEach(parts) == [k \in 1..Len(parts) |-> trim(parts[k])]

parseDatePart(datePart, year) == FromParts(TrimEach(split(datePart, "/")), year)

\* ------------------------------------------------------------------------
\* Time-Range Parser
\* ------------------------------------------------------------------------

\* `${t.slice(0, 2)}:${t.slice(2, 4)}:00Z`
TimeString(t) == slice(t, 0, 2) \o <<":">> \o slice(t, 2, 4) \o <<":","0","0","Z">>

\* the try block of parseTimePart: slicing an end that is undefined throws
Times(start, end) ==
    IF end = Undefined THEN Throw("Failed to parse time part")
    ELSE Return(<<TimeString(start), TimeString(end)>>)

\* the two elements of timePart.split('-')
StartEnd(parts) == Times(Element(parts, 1), Element(parts, 2))

parseTimePart(timePart) == StartEnd(split(timePart, "-"))

\* ------------------------------------------------------------------------
\* Detail Extractor
\* ------------------------------------------------------------------------

NoMatch == [ok |-> FALSE]

\* the first alternative that matches
OrElse(m, alternative) == IF m.ok THEN m ELSE alternative

\* ` (\d{4}Z-\d{4}Z)` at position p; the position after it, 0 when it fails
TimeEnd(s, p) ==
    IF /\ p + 11 <= Len(s)
       /\ s[p] = " "
       /\ \A k \in 1..4 : s[p + k] \in DigitChars
       /\ s[p + 5] = "Z"
       /\ s[p + 6] = "-"
       /\ \A k \in 7..10 : s[p + k] \in DigitChars
       /\ s[p + 11] = "Z"
    THEN p + 12
    ELSE 0

\* a run of one character or more that ends at position `end`, else 0
NonEmpty(from, end) == IF end > from THEN end ELSE 0

\* ` \w+` after the digits that end at position d, which began at p
MonEnd(s, p, d) ==
    IF d > p /\ LitAt(s, d, <<" ">>)
    THEN NonEmpty(d + 1, RunEnd(s, d + 1, WordChars))
    ELSE 0

\* `\d+ \w+` at position p; the position after it, 0 when it fails.  The runs
\* are taken whole: what follows either run in the pattern is a character
\* outside the run's class, so no shorter run can match.
DayMonEnd(s, p) == MonEnd(s, p, RunEnd(s, p, DigitChars))

\* `\/` and what follows it, after a run from p that ends at position d
SlashDayMonEnd(s, p, d) ==
    IF d > p /\ LitAt(s, d, <<"/">>) THEN DayMonEnd(s, d + 1) ELSE 0

\* first alternative of the date group, `\d+\/\d+ \w+`
DateAlt1End(s, p) == SlashDayMonEnd(s, p, RunEnd(s, p, DigitChars))

\* second alternative of the date group, `\d+ \w+\/\d+ \w+`
DateAlt2End(s, p) == SlashDayMonEnd(s, p, DayMonEnd(s, p))

\* the match from i to te, with the date group from p + 1 to de
Matched(s, i, p, de, te) ==
    IF te = 0 THEN NoMatch
    ELSE [ok       |-> TRUE,
          text     |-> SubSeq(s, i, te - 1),
          type     |-> SubSeq(s, i, p - 1),
          datePart |-> SubSeq(s, p + 1, de - 1),
          timePart |-> SubSeq(s, de + 1, te - 1),
          end      |-> te]

\* the time group after a date group that ends at de
DateThenTime(s, i, p, de) ==
    IF de = 0 THEN NoMatch ELSE Matched(s, i, p, de, TimeEnd(s, de))

\* ` (date) (time)` from position p, for a label that began at position i:
\* the second alternative is tried when the first does not lead to a match
MatchTail(s, i, p) ==
    IF ~LitAt(s, p, <<" ">>) THEN NoMatch
    ELSE OrElse(DateThenTime(s, i, p, DateAlt1End(s, p + 1)),
                DateThenTime(s, i, p, DateAlt2End(s, p + 1)))

\* `\)` after digits from p that end at d; the position after it, else 0
CloseParen(s, p, d) == IF d > p /\ LitAt(s, d, <<")">>) THEN d + 1 ELSE 0

\* ` \(\d+\)` at position p; the position after it, 0 when it fails
CounterEnd(s, p) ==
    IF LitAt(s, p, <<" ","(">>)
    THEN CloseParen(s, p + 2, RunEnd(s, p + 2, DigitChars))
    ELSE 0

\* the rest of the pattern after a counter that ends at c
AfterCounter(s, i, c) == IF c = 0 THEN NoMatch ELSE MatchTail(s, i, c)

\* the pattern from ` Launch Day` on, for a label word from i that ends at w:
\* the optional counter is tried first, and the match without it when the
\* rest does not follow the counter
LaunchDay(s, i, w) ==
    IF w > i /\ LitAt(s, w, <<" ","L","a","u","n","c","h"," ","D","a","y">>)
    THEN OrElse(AfterCounter(s, i, CounterEnd(s, w + 11)), MatchTail(s, i, w + 11))
    ELSE NoMatch

\* the pattern anchored at position i
MatchAt(s, i) == LaunchDay(s, i, RunEnd(s, i, WordChars))

\* the match at the leftmost of the positions where the pattern matches
Leftmost(s, starts) ==
    IF starts = {} THEN NoMatch
    ELSE MatchAt(s, CHOOSE i \in starts : \A j \in starts : i <= j)

\* pattern.exec(details) with the global flag: the first match at or after
\* lastIndex
exec(s, lastIndex) ==
    Leftmost(s, {i \in lastIndex..Len(s) : MatchAt(s, i).ok})

\* the window of a label and the two parsers' results, or the exception
Window(type, d, t) ==
    IF ~d.ok THEN d
    ELSE IF ~t.ok THEN t
    ELSE Return([type          |-> type,
                 startDate     |-> d.val[1],
                 endDate       |-> d.val[2],
                 startTime     |-> t.val[1],
                 endTime       |-> t.val[2],
                 startDatetime |-> d.val[1] \o <<"T">> \o t.val[1],
                 endDatetime   |-> d.val[2] \o <<"T">> \o t.val[2]])

\* one iteration's try block: the window, or the exception caught
ParsedDetail(match, advisoryStartYear) ==
    Window(match.type, parseDatePart(match.datePart, advisoryStartYear),
           parseTimePart(match.timePart))

\* parsedList.push(...) when the try block completed
Pushed(entry) == IF entry.ok THEN <<entry.val>> ELSE <<>>

\* what the list holds when the iteration failed and the loop stops there
StopsAt(entry, rest) == IF entry.ok THEN <<entry.val>> \o rest ELSE <<>>

RECURSIVE ParseLoop(_, _, _)

\* one turn of the while loop, for the match that exec returned
Iteration(details, match, advisoryStartYear) ==
    IF ~match.ok THEN <<>>
    ELSE Pushed(ParsedDetail(match, advisoryStartYear))
           \o ParseLoop(details, match.end, advisoryStartYear)

\* the while loop from lastIndex on: the windows pushed
ParseLoop(details, lastIndex, advisoryStartYear) ==
    Iteration(details, exec(details, lastIndex), advisoryStartYear)

RECURSIVE AbortingLoop(_, _, _)

AbortingIteration(details, match, advisoryStartYear) ==
    IF ~match.ok THEN <<>>
    ELSE StopsAt(ParsedDetail(match, advisoryStartYear),
                 AbortingLoop(details, match.end, advisoryStartYear))

\* a loop that gives up at the first window that fails to parse
AbortingLoop(details, lastIndex, advisoryStartYear) ==
    AbortingIteration(details, exec(details, lastIndex), advisoryStartYear)

parseDetailsAborting(details, advisoryStartYear) ==
    Return(AbortingLoop(details, 1, advisoryStartYear))

\* parseDetails returns normally: every exception of an iteration is caught
parseDetails(details, advisoryStartYear) ==
    Return(ParseLoop(details, 1, advisoryStartYear))

\* ------------------------------------------------------------------------
\* Relevance Filter and enrichment of one record
\* ------------------------------------------------------------------------

\* /(Starship|SpaceX|Starlink)/i.test(summary)
Keywords == {<<"s","t","a","r","s","h","i","p">>, <<"s","p","a","c","e","x">>,
             <<"s","t","a","r","l","i","n","k">>}

IsRelevant(advisory) ==
    LET summary == toLowerCase(advisory.summary)
    IN  \E kw \in Keywords : \E i \in 1..Len(summary) : LitAt(summary, i, kw)

\* data.rows.filter(...)
filter(rows) == SelectSeq(rows, IsRelevant)

\* the value of the decimal digits ds
RECURSIVE DigitsValue(_)
DigitsValue(ds) ==
    IF ds = <<>> THEN 0
    ELSE 10 * DigitsValue(SubSeq(ds, 1, Len(ds) - 1))
           + ((CHOOSE d \in 1..10 : DigitSeq[d] = ds[Len(ds)]) - 1)

\* new Date(text).getUTCFullYear() for a UTC timestamp YYYY-MM-DDTHH:MM:SSZ;
\* any other text is an invalid date, whose year is NaN
getUTCFullYear(text) ==
    IF /\ Len(text) = 20
       /\ \A i \in {1,2,3,4,6,7,9,10,12,13,15,16,18,19} : text[i] \in DigitChars
       /\ text[5] = "-" /\ text[8] = "-" /\ text[11] = "T"
       /\ text[14] = ":" /\ text[17] = ":" /\ text[20] = "Z"
    THEN DigitsValue(SubSeq(text, 1, 4))
    ELSE NaN

\* the try block of one loop iteration up to the store call: the record
\* { ...advisory, parsedDetails }, or the exception thrown
\* { ...advisory, parsedDetails }
updatedAdvisory(advisory, parsedDetails) ==
    IF parsedDetails.ok
    THEN Return([parsedDetails |-> parsedDetails.val] @@ advisory)
    ELSE parsedDetails

Enrich(advisory) ==
    updatedAdvisory(advisory,
        parseDetails(advisory.details, getUTCFullYear(advisory.advisorystarttime)))

\* ------------------------------------------------------------------------
\* The upstream provider's records
\* ------------------------------------------------------------------------

\* relevant; two well-formed windows around one with an unknown month
Advisory101 ==
    [advisoryid        |-> 101,
     summary           |-> \* "SpaceX Starship Flight"
        <<"S","p","a","c","e","X"," ","S","t","a","r","s","h","i","p"," ","F","l","i","g","h","t">>,
     advisorystarttime |-> \* "2024-06-01T00:00:00Z"
        <<"2","0","2","4","-","0","6","-","0","1","T","0","0",":","0","0",":","0","0","Z">>,
     details           |-> \* "Primary Launch Day 3 JUN/4 JUN 1200Z-1800Z Backup Launch Day (1) 5/6 JUNE 1200Z-1800Z Backup Launch Day (2) 7/8 jun 1300Z-1900Z"
        <<"P","r","i","m","a","r","y"," ","L","a","u","n","c","h"," ","D","a","y"," ","3"," ","J","U","N","/","4"," ","J","U","N"," ","1","2","0","0","Z","-","1","8","0","0","Z"," ","B","a","c","k","u","p"," ","L","a","u","n","c","h"," ","D","a","y"," ","(","1",")"," ","5","/","6"," ","J","U","N","E"," ","1","2","0","0","Z","-","1","8","0","0","Z"," ","B","a","c","k","u","p"," ","L","a","u","n","c","h"," ","D","a","y"," ","(","2",")"," ","7","/","8"," ","j","u","n"," ","1","3","0","0","Z","-","1","9","0","0","Z">>]

\* not relevant
Advisory102 ==
    [advisoryid        |-> 102,
     summary           |-> \* "Routine airspace notice"
        <<"R","o","u","t","i","n","e"," ","a","i","r","s","p","a","c","e"," ","n","o","t","i","c","e">>,
     advisorystarttime |-> \* "2024-06-02T00:00:00Z"
        <<"2","0","2","4","-","0","6","-","0","2","T","0","0",":","0","0",":","0","0","Z">>,
     details           |-> \* "Closure Launch Day 9/10 JUN 0900Z-1000Z"
        <<"C","l","o","s","u","r","e"," ","L","a","u","n","c","h"," ","D","a","y"," ","9","/","1","0"," ","J","U","N"," ","0","9","0","0","Z","-","1","0","0","0","Z">>]

\* relevant; a window whose end month is before its start month
Advisory103 ==
    [advisoryid        |-> 103,
     summary           |-> \* "STARLINK 6-1"
        <<"S","T","A","R","L","I","N","K"," ","6","-","1">>,
     advisorystarttime |-> \* "2024-12-30T00:00:00Z"
        <<"2","0","2","4","-","1","2","-","3","0","T","0","0",":","0","0",":","0","0","Z">>,
     details           |-> \* "Primary Launch Day 31 DEC/1 JAN 2200Z-0200Z"
        <<"P","r","i","m","a","r","y"," ","L","a","u","n","c","h"," ","D","a","y"," ","3","1"," ","D","E","C","/","1"," ","J","A","N"," ","2","2","0","0","Z","-","0","2","0","0","Z">>]

\* relevant; its start time is not a date
Advisory104 ==
    [advisoryid        |-> 104,
     summary           |-> \* "starship static fire"
        <<"s","t","a","r","s","h","i","p"," ","s","t","a","t","i","c"," ","f","i","r","e">>,
     advisorystarttime |-> \* "TBD"
        <<"T","B","D">>,
     details           |-> \* "Static Fire Launch Day 3/5 jan 1200Z-1430Z"
        <<"S","t","a","t","i","c"," ","F","i","r","e"," ","L","a","u","n","c","h"," ","D","a","y"," ","3","/","5"," ","j","a","n"," ","1","2","0","0","Z","-","1","4","3","0","Z">>]

\* an earlier version of advisory 101, with a field the current one lacks
Advisory101Old ==
    [advisoryid        |-> 101,
     summary           |-> \* "SpaceX Starship Flight"
        <<"S","p","a","c","e","X"," ","S","t","a","r","s","h","i","p"," ","F","l","i","g","h","t">>,
     advisorystarttime |-> \* "2024-06-01T00:00:00Z"
        <<"2","0","2","4","-","0","6","-","0","1","T","0","0",":","0","0",":","0","0","Z">>,
     details           |-> \* "Primary Launch Day 1/2 JUN 1200Z-1800Z"
        <<"P","r","i","m","a","r","y"," ","L","a","u","n","c","h"," ","D","a","y"," ","1","/","2"," ","J","U","N"," ","1","2","0","0","Z","-","1","8","0","0","Z">>,
     canceltime        |-> \* "2024-05-30T00:00:00Z"
        <<"2","0","2","4","-","0","5","-","3","0","T","0","0",":","0","0",":","0","0","Z">>]

\* an advisory of an earlier cycle, no longer published
Advisory99 ==
    [advisoryid        |-> 99,
     summary           |-> \* "Starship Flight 3"
        <<"S","t","a","r","s","h","i","p"," ","F","l","i","g","h","t"," ","3">>,
     advisorystarttime |-> \* "2024-03-14T00:00:00Z"
        <<"2","0","2","4","-","0","3","-","1","4","T","0","0",":","0","0",":","0","0","Z">>,
     details           |-> \* "Primary Launch Day 14 MAR/15 MAR 1200Z-1400Z"
        <<"P","r","i","m","a","r","y"," ","L","a","u","n","c","h"," ","D","a","y"," ","1","4"," ","M","A","R","/","1","5"," ","M","A","R"," ","1","2","0","0","Z","-","1","4","0","0","Z">>]

\* ------------------------------------------------------------------------
\* Bounds
\* ------------------------------------------------------------------------

\* invocations of the two handlers that can overlap
NumInvocations == 2

\* rows of the upstream batch
MaxRows == 3

Invocations == 1..NumInvocations

\* the provider's rows, in published order
Rows == <<Advisory103, Advisory102, Advisory101, Advisory104>>

Min(a, b) == IF a < b THEN a ELSE b

\* the batches the provider can be publishing
Batches == {SubSeq(Rows, 1, n) : n \in 0..Min(MaxRows, Len(Rows))}

Methods == {"GET", "POST", "OPTIONS"}

\* ------------------------------------------------------------------------
\* The store
\* ------------------------------------------------------------------------

\* client.db('advisories_db').collection('starship_advisories')
WriteCollection == <<"advisories_db", "starship_advisories">>

\* client.db('danielmillar').collection('faa_advisories')
ReadCollection == <<"danielmillar", "faa_advisories">>

Collections == {WriteCollection, ReadCollection}

\* what a collection can hold when the first invocation arrives: nothing, or
\* the records an earlier ingestion cycle wrote
InitialDocuments == {<<>>, <<Enrich(Advisory101Old).val, Enrich(Advisory99).val>>}

\* the enrichment of each of the provider's records, evaluated once
Enriched == [advisory \in Range(Rows) |-> Enrich(advisory)]

\* position of the first document matching { advisoryid: id }, 0 if none
RECURSIVE FindFirst(_, _, _)
FindFirst(docs, id, i) ==
    IF i > Len(docs) THEN 0
    ELSE IF docs[i].advisoryid = id THEN i
    ELSE FindFirst(docs, id, i + 1)

\* an insert that never looks for a document to replace
insertAlways(docs, replacement) ==
    [docs |-> Append(docs, replacement), matchedCount |-> 0, upsertedId |-> TRUE]

\* an update that sets the new fields over the matched document
mergeOne(docs, replacement) ==
    LET i == FindFirst(docs, replacement.advisoryid, 1)
    IN  IF i # 0
        THEN [docs |-> [docs EXCEPT ![i] = replacement @@ docs[i]],
              matchedCount |-> 1, upsertedId |-> FALSE]
        ELSE [docs |-> Append(docs, replacement),
              matchedCount |-> 0, upsertedId |-> TRUE]

\* collection.replaceOne({ advisoryid: replacement.advisoryid }, replacement,
\* { upsert: true }): the collection afterwards and the result fields read
replaceOne(docs, replacement) ==
    LET i == FindFirst(docs, replacement.advisoryid, 1)
    IN  IF i # 0
        THEN [docs |-> [docs EXCEPT ![i] = replacement],
              matchedCount |-> 1, upsertedId |-> FALSE]
        ELSE [docs |-> Append(docs, replacement),
              matchedCount |-> 0, upsertedId |-> TRUE]

\* ------------------------------------------------------------------------
\* State
\* ------------------------------------------------------------------------

VARIABLES
    mongoUri,   \* whether process.env.MONGODB_URI is defined
    upstream,   \* the rows the provider publishes
    store,      \* the documents of each collection
    inv,        \* per invocation: position, request, client, response, locals
    call,       \* a parser called on its own: the function and its arguments
    outcome     \* what that call returned or threw

vars == <<mongoUri, upstream, store, inv, call, outcome>>

\* no parser call is being followed
NoCall == [fn |-> "none"]

Pending == [pending |-> TRUE]

NoResponse == [status |-> 0]

Idle ==
    [pc         |-> "idle",
     handler    |-> "none",
     method     |-> "none",
     client     |-> "none",
     res        |-> NoResponse,
     rejected   |-> FALSE,
     advisories |-> <<>>,
     k          |-> 0,
     log        |-> <<>>]

Init ==
    /\ mongoUri \in BOOLEAN
    /\ upstream \in Batches
    /\ \E docs \in InitialDocuments : store = [c \in Collections |-> docs]
    /\ inv = [i \in Invocations |-> Idle]
    /\ call = NoCall
    /\ outcome = Pending

\* invocations are numbered in the order they arrive
Arrives(i) ==
    /\ inv[i].pc = "idle"
    /\ \A j \in Invocations : j < i => inv[j].pc # "idle"

Json(status, body) == [status |-> status, body |-> body]

\* ------------------------------------------------------------------------
\* Ingestion Pipeline (fetchAndProcessAdvisories)
\* ------------------------------------------------------------------------

\* the for loop from record k up to its next store call: iterations whose
\* enrichment throws are caught, logged and passed over.  Gives the position
\* of the record awaiting the store (past the end when the loop is over) and
\* the log.
RECURSIVE RunLoop(_, _, _)
RunLoop(advisories, k, log) ==
    IF k > Len(advisories) THEN [k |-> k, log |-> log]
    ELSE IF Enriched[advisories[k]].ok THEN [k |-> k, log |-> log]
    ELSE RunLoop(advisories, k + 1,
                 Append(log, <<"Error processing advisory", advisories[k].advisoryid>>))

\* a loop that a record's failure ends
AbortLoop(advisories, k, log) == [k |-> Len(advisories) + 1, log |-> log]

\* what follows a failed iteration k - 1: the catch inside the loop logs and
\* the loop goes on with record k
ContinueAfterError(advisories, k, log) == RunLoop(advisories, k, log)

\* the invocation once fetchAndProcessAdvisories has run the loop to `at`:
\* awaiting the store for a record, or returned to the handler, which responds
\* and goes to its finally block
Ingesting(r, advisories, at) ==
    IF at.k <= Len(advisories)
    THEN [r EXCEPT !.pc = "upserting", !.advisories = advisories,
                   !.k = at.k, !.log = at.log]
    ELSE [r EXCEPT !.pc = "closing", !.advisories = advisories,
                   !.k = at.k, !.log = at.log,
                   !.res = Json(200, [message |-> "Advisories processed"])]

\* ------------------------------------------------------------------------
\* Both handlers: configuration and the client's scope
\* ------------------------------------------------------------------------

\* a check that lets a missing connection string through
NeverMissing(uri) == FALSE

\* if (!mongoUri) / if (!uri)
Missing(uri) == ~uri

\* an exit that leaves the try statement without closing the client
NoFinally(r) == [r EXCEPT !.pc = "done"]

\* the finally block: await client.close()
Finally(r) == [r EXCEPT !.pc = "closing"]

\* ------------------------------------------------------------------------
\* Write-trigger handler
\* ------------------------------------------------------------------------

\* the handler up to its first await: preflight, configuration, the client
WriteStart(i, m) ==
    /\ Arrives(i)
    /\ LET r == [inv[i] EXCEPT !.handler = "write", !.method = m]
       IN  inv' = [inv EXCEPT ![i] =
             IF m = "OPTIONS"
             THEN [r EXCEPT !.pc = "done", !.res = [status |-> 200]]
             ELSE IF Missing(mongoUri)
             THEN [r EXCEPT !.pc = "done", !.rejected = TRUE]
             ELSE [r EXCEPT !.pc = "connecting", !.client = "open"]]
    /\ UNCHANGED <<mongoUri, upstream, store, call, outcome>>

\* client.connect() resolves: a POST enters the pipeline and awaits the
\* fetch, any other method is answered 405
WriteConnected(i) ==
    /\ inv[i].handler = "write"
    /\ inv[i].pc = "connecting"
    /\ inv' = [inv EXCEPT ![i] =
          IF inv[i].method = "POST"
          THEN [inv[i] EXCEPT !.pc = "fetching"]
          ELSE Finally([inv[i] EXCEPT
                          !.res = Json(405, [message |-> "Method not allowed"])])]
    /\ UNCHANGED <<mongoUri, upstream, store, call, outcome>>

\* client.connect() rejects: the handler's catch answers 500
WriteConnectFailed(i) ==
    /\ inv[i].handler = "write"
    /\ inv[i].pc = "connecting"
    /\ inv' = [inv EXCEPT ![i] =
          Finally([inv[i] EXCEPT
                     !.log = Append(@, <<"Error">>),
                     !.res = Json(500, [message |-> "Server error"])])]
    /\ UNCHANGED <<mongoUri, upstream, store, call, outcome>>

\* fetch and response.json() resolve: the rows are filtered and the loop
\* runs to its first store call
Fetched(i) ==
    /\ inv[i].pc = "fetching"
    /\ LET advisories == filter(upstream)
       IN  inv' = [inv EXCEPT ![i] =
             Ingesting(inv[i], advisories, RunLoop(advisories, 1, inv[i].log))]
    /\ UNCHANGED <<mongoUri, upstream, store, call, outcome>>

\* fetch or response.json() rejects, or the body has no rows: the outer catch
\* of fetchAndProcessAdvisories logs, the function returns normally and the
\* handler goes on to its success response
FetchFailed(i) ==
    /\ inv[i].pc = "fetching"
    /\ inv' = [inv EXCEPT ![i] =
          Finally([inv[i] EXCEPT
                     !.log = Append(@, <<"Error fetching advisories">>),
                     !.res = Json(200, [message |-> "Advisories processed"])])]
    /\ UNCHANGED <<mongoUri, upstream, store, call, outcome>>

\* replaceOne resolves for record k: the collection is updated, the outcome
\* logged, and the loop runs to its next store call
Upserted(i) ==
    /\ inv[i].pc = "upserting"
    /\ LET advisory == inv[i].advisories[inv[i].k]
           result   == replaceOne(store[WriteCollection], Enriched[advisory].val)
           message  == IF result.matchedCount > 0 THEN "Updated advisory"
                       ELSE IF result.upsertedId THEN "Inserted advisory"
                       ELSE "No action for advisory"
           log      == Append(inv[i].log, <<message, advisory.advisoryid>>)
       IN  /\ store' = [store EXCEPT ![WriteCollection] = result.docs]
           /\ inv' = [inv EXCEPT ![i] =
                 Ingesting(inv[i], inv[i].advisories,
                           RunLoop(inv[i].advisories, inv[i].k + 1, log))]
    /\ UNCHANGED <<mongoUri, upstream, call, outcome>>

\* replaceOne rejects for record k: the catch inside the loop logs and the
\* loop goes on
UpsertFailed(i) ==
    /\ inv[i].pc = "upserting"
    /\ LET advisory == inv[i].advisories[inv[i].k]
           log      == Append(inv[i].log,
                              <<"Error processing advisory", advisory.advisoryid>>)
       IN  inv' = [inv EXCEPT ![i] =
             Ingesting(inv[i], inv[i].advisories,
                       ContinueAfterError(inv[i].advisories, inv[i].k + 1, log))]
    /\ UNCHANGED <<mongoUri, upstream, store, call, outcome>>

\* ------------------------------------------------------------------------
\* Read handler
\* ------------------------------------------------------------------------

\* the handler up to its first await: preflight, method, configuration, client
ReadStart(i, m) ==
    /\ Arrives(i)
    /\ LET r == [inv[i] EXCEPT !.handler = "read", !.method = m]
       IN  inv' = [inv EXCEPT ![i] =
             IF m = "OPTIONS"
             THEN [r EXCEPT !.pc = "done", !.res = [status |-> 200]]
             ELSE IF m # "GET"
             THEN [r EXCEPT !.pc = "done",
                            !.res = Json(405, [message |-> "Method Not Allowed"])]
             ELSE IF Missing(mongoUri)
             THEN [r EXCEPT !.pc = "done",
                            !.res = Json(500, [message |-> "MONGODB_URI is not defined"])]
             ELSE [r EXCEPT !.pc = "connecting", !.client = "open"]]
    /\ UNCHANGED <<mongoUri, upstream, store, call, outcome>>

\* client.connect() resolves: the query is sent
ReadConnected(i) ==
    /\ inv[i].handler = "read"
    /\ inv[i].pc = "connecting"
    /\ inv' = [inv EXCEPT ![i].pc = "finding"]
    /\ UNCHANGED <<mongoUri, upstream, store, call, outcome>>

\* client.connect() rejects: the catch answers 500
ReadConnectFailed(i) ==
    /\ inv[i].handler = "read"
    /\ inv[i].pc = "connecting"
    /\ inv' = [inv EXCEPT ![i] =
          Finally([inv[i] EXCEPT !.res = Json(500, [message |-> "error"])])]
    /\ UNCHANGED <<mongoUri, upstream, store, call, outcome>>

\* collection.find().toArray() resolves: every document is sent
Found(i) ==
    /\ inv[i].pc = "finding"
    /\ inv' = [inv EXCEPT ![i] =
          Finally([inv[i] EXCEPT
                     !.res = Json(200, [advisories |-> store[ReadCollection]])])]
    /\ UNCHANGED <<mongoUri, upstream, store, call, outcome>>

\* collection.find().toArray() rejects: the catch answers 500
FindFailed(i) ==
    /\ inv[i].pc = "finding"
    /\ inv' = [inv EXCEPT ![i] =
          Finally([inv[i] EXCEPT !.res = Json(500, [message |-> "error"])])]
    /\ UNCHANGED <<mongoUri, upstream, store, call, outcome>>

\* client.close() resolves and the invocation ends
Closed(i) ==
    /\ inv[i].pc = "closing"
    /\ inv' = [inv EXCEPT ![i].pc = "done", ![i].client = "closed"]
    /\ UNCHANGED <<mongoUri, upstream, store, call, outcome>>

\* one step of invocation i
Step(i) ==
    \/ \E m \in Methods : WriteStart(i, m)
    \/ WriteConnected(i)
    \/ WriteConnectFailed(i)
    \/ Fetched(i)
    \/ FetchFailed(i)
    \/ Upserted(i)
    \/ UpsertFailed(i)
    \/ \E m \in Methods : ReadStart(i, m)
    \/ ReadConnected(i)
    \/ ReadConnectFailed(i)
    \/ Found(i)
    \/ FindFailed(i)
    \/ Closed(i)

\* invocations overlap: any of them takes the next step
Next == \E i \in Invocations : Step(i)

\* invocations in sequence: one begins when the others have ended
NextInSequence ==
    \E i \in Invocations :
        /\ \A j \in Invocations \ {i} : inv[j].pc \in {"idle", "done"}
        /\ Step(i)

Spec == Init /\ [][Next]_vars

SpecInSequence == Init /\ [][NextInSequence]_vars

\* ------------------------------------------------------------------------
\* The parsers called on their own
\* ------------------------------------------------------------------------

\* occurrences of the pattern in one details text
MaxWindows == 3

\* a window with a month on each side
WindowTwoMonths ==
    [text       |-> \* "Primary Launch Day 3 JUN/4 JUL 1200Z-1800Z"
        <<"P","r","i","m","a","r","y"," ","L","a","u","n","c","h"," ","D","a","y"," ","3"," ","J","U","N","/","4"," ","J","U","L"," ","1","2","0","0","Z","-","1","8","0","0","Z">>,
     occurrence |-> TRUE,
     parses     |-> TRUE,
     type       |-> <<"P","r","i","m","a","r","y"," ","L","a","u","n","c","h"," ","D","a","y">>,
     datePart   |-> <<"3"," ","J","U","N","/","4"," ","J","U","L">>,
     timePart   |-> <<"1","2","0","0","Z","-","1","8","0","0","Z">>]

\* a window with a counter and one month, in lower case
WindowOneMonth ==
    [text       |-> \* "Backup Launch Day (1) 5/16 jun 1300Z-1900Z"
        <<"B","a","c","k","u","p"," ","L","a","u","n","c","h"," ","D","a","y"," ","(","1",")"," ","5","/","1","6"," ","j","u","n"," ","1","3","0","0","Z","-","1","9","0","0","Z">>,
     occurrence |-> TRUE,
     parses     |-> TRUE,
     type       |-> <<"B","a","c","k","u","p"," ","L","a","u","n","c","h"," ","D","a","y"," ","(","1",")">>,
     datePart   |-> <<"5","/","1","6"," ","j","u","n">>,
     timePart   |-> <<"1","3","0","0","Z","-","1","9","0","0","Z">>]

\* an occurrence of the pattern whose month is not an abbreviation
WindowLongMonth ==
    [text       |-> \* "Backup Launch Day (2) 7/8 JUNE 1300Z-1900Z"
        <<"B","a","c","k","u","p"," ","L","a","u","n","c","h"," ","D","a","y"," ","(","2",")"," ","7","/","8"," ","J","U","N","E"," ","1","3","0","0","Z","-","1","9","0","0","Z">>,
     occurrence |-> TRUE,
     parses     |-> FALSE,
     type       |-> <<"B","a","c","k","u","p"," ","L","a","u","n","c","h"," ","D","a","y"," ","(","2",")">>,
     datePart   |-> <<"7","/","8"," ","J","U","N","E">>,
     timePart   |-> <<"1","3","0","0","Z","-","1","9","0","0","Z">>]

\* an occurrence of the pattern whose first month is unknown
WindowBadFirstMonth ==
    [text       |-> \* "Reserve Launch Day 9 JNE/10 JUL 0000Z-0100Z"
        <<"R","e","s","e","r","v","e"," ","L","a","u","n","c","h"," ","D","a","y"," ","9"," ","J","N","E","/","1","0"," ","J","U","L"," ","0","0","0","0","Z","-","0","1","0","0","Z">>,
     occurrence |-> TRUE,
     parses     |-> FALSE,
     type       |-> <<"R","e","s","e","r","v","e"," ","L","a","u","n","c","h"," ","D","a","y">>,
     datePart   |-> <<"9"," ","J","N","E","/","1","0"," ","J","U","L">>,
     timePart   |-> <<"0","0","0","0","Z","-","0","1","0","0","Z">>]

\* no occurrence: the time has three digits
TextShortTime ==
    [text       |-> \* "Test Launch Day 3/4 JUN 120Z-1800Z"
        <<"T","e","s","t"," ","L","a","u","n","c","h"," ","D","a","y"," ","3","/","4"," ","J","U","N"," ","1","2","0","Z","-","1","8","0","0","Z">>,
     occurrence |-> FALSE,
     parses     |-> FALSE,
     type       |-> <<>>,
     datePart   |-> <<>>,
     timePart   |-> <<>>]

\* no occurrence: the label lacks Launch Day
TextNoLabel ==
    [text       |-> \* "Closure 3 JUN/4 JUN 1200Z-1800Z"
        <<"C","l","o","s","u","r","e"," ","3"," ","J","U","N","/","4"," ","J","U","N"," ","1","2","0","0","Z","-","1","8","0","0","Z">>,
     occurrence |-> FALSE,
     parses     |-> FALSE,
     type       |-> <<>>,
     datePart   |-> <<>>,
     timePart   |-> <<>>]

Segments == {WindowTwoMonths, WindowOneMonth, WindowLongMonth, WindowBadFirstMonth,
             TextShortTime, TextNoLabel}

Separator == <<".", " ">>

\* the details text made of the segments, in order
RECURSIVE DetailsText(_)
DetailsText(segs) ==
    IF segs = <<>> THEN <<>>
    ELSE Head(segs).text \o Separator \o DetailsText(Tail(segs))

RECURSIVE SeqsUpTo(_, _)
SeqsUpTo(S, n) ==
    IF n = 0 THEN {<<>>}
    ELSE SeqsUpTo(S, n - 1)
           \cup {Append(q, x) : q \in {r \in SeqsUpTo(S, n - 1) : Len(r) = n - 1}, x \in S}

Years == {1999, 2024}

YearText(y) == IF y = 1999 THEN <<"1","9","9","9">> ELSE <<"2","0","2","4">>

DayTexts == {<<"3">>, <<"0","5">>, <<"3","1">>}

\* the twelve abbreviations, then two month texts that are none of them
MonthTexts ==
    <<<<"J","A","N">>, <<"F","E","B">>, <<"M","A","R">>, <<"A","P","R">>,
      <<"M","A","Y">>, <<"J","U","N">>, <<"J","U","L">>, <<"A","U","G">>,
      <<"S","E","P">>, <<"O","C","T">>, <<"N","O","V">>, <<"D","E","C">>,
      <<"J","A","N","U","A","R","Y">>, <<"X","X">>>>

MonthNumberText ==
    <<<<"0","1">>, <<"0","2">>, <<"0","3">>, <<"0","4">>, <<"0","5">>, <<"0","6">>,
      <<"0","7">>, <<"0","8">>, <<"0","9">>, <<"1","0">>, <<"1","1">>, <<"1","2">>>>

LetterCases == {"upper", "lower", "capital"}

\* month text m written in letter case c
MonthIn(m, c) ==
    IF c = "upper" THEN MonthTexts[m]
    ELSE IF c = "lower" THEN toLowerCase(MonthTexts[m])
    ELSE <<Head(MonthTexts[m])>> \o toLowerCase(Tail(MonthTexts[m]))

\* the date fragments given to parseDatePart: both shapes, and fragments of
\* one and of three parts
DateCalls ==
    [fn : {"parseDatePart"}, shape : {"two months"},
     d1 : DayTexts, m1 : 1..14, c1 : LetterCases,
     d2 : DayTexts, m2 : 1..14, c2 : LetterCases, year : Years]
    \cup
    [fn : {"parseDatePart"}, shape : {"one month", "one part", "three parts"},
     d1 : DayTexts, m1 : {1}, c1 : {"upper"},
     d2 : DayTexts, m2 : 1..14, c2 : LetterCases, year : Years]

DateText(c) ==
    CASE c.shape = "two months" ->
           c.d1 \o <<" ">> \o MonthIn(c.m1, c.c1) \o <<"/">> \o c.d2 \o <<" ">> \o MonthIn(c.m2, c.c2)
      [] c.shape = "one month" ->
           c.d1 \o <<"/">> \o c.d2 \o <<" ">> \o MonthIn(c.m2, c.c2)
      [] c.shape = "one part" ->
           c.d2 \o <<" ">> \o MonthIn(c.m2, c.c2)
      [] c.shape = "three parts" ->
           c.d1 \o <<"/">> \o c.d1 \o <<"/">> \o c.d2 \o <<" ">> \o MonthIn(c.m2, c.c2)

DetailsCalls ==
    [fn : {"parseDetails"}, segs : SeqsUpTo(Segments, MaxWindows), year : Years]

InitParse ==
    /\ mongoUri = TRUE
    /\ upstream = <<>>
    /\ store = [c \in Collections |-> <<>>]
    /\ inv = [i \in Invocations |-> Idle]
    /\ call \in DateCalls \cup DetailsCalls
    /\ outcome = Pending

CallParseDatePart ==
    /\ call.fn = "parseDatePart"
    /\ outcome = Pending
    /\ outcome' = parseDatePart(DateText(call), call.year)
    /\ UNCHANGED <<mongoUri, upstream, store, inv, call>>

CallParseDetails ==
    /\ call.fn = "parseDetails"
    /\ outcome = Pending
    /\ outcome' = parseDetails(DetailsText(call.segs), call.year)
    /\ UNCHANGED <<mongoUri, upstream, store, inv, call>>

NextParse == CallParseDatePart \/ CallParseDetails

SpecParse == InitParse /\ [][NextParse]_vars

\* ------------------------------------------------------------------------
\* Properties of the handlers and the pipeline
\* ------------------------------------------------------------------------

WriteDocs == store[WriteCollection]

\* the relevant records of each batch, evaluated once
RelevantOf == [batch \in Batches |-> filter(batch)]

Relevant == RelevantOf[upstream]

Succeeded(entry) == entry[1] \in {"Updated advisory", "Inserted advisory"}

Failed(entry) == entry[1] = "Error processing advisory"

\* the invocation's fetch resolved and its loop began
InLoop(i) == inv[i].k >= 1

Ended(i) == inv[i].pc \in {"closing", "done"}

\* positions of the stored documents with this advisoryid
DocsOf(id) == {n \in 1..Len(WriteDocs) : WriteDocs[n].advisoryid = id}

\* the collection holds exactly one record of this advisory: its enrichment
StoredOnce(advisory) ==
    /\ Cardinality(DocsOf(advisory.advisoryid)) = 1
    /\ \A n \in DocsOf(advisory.advisoryid) : WriteDocs[n] = Enriched[advisory].val

\* C1: in a write-trigger invocation every relevant record is processed,
\* whichever records before it failed: the loop has logged one outcome for
\* each record before the current one, in order, every record whose upsert
\* succeeded is in the store as its enrichment, and the loop ends only past
\* the last record.
C1_RecordFailureIsolated ==
    \A i \in Invocations :
        InLoop(i) =>
            /\ inv[i].advisories = Relevant
            /\ Len(inv[i].log) = inv[i].k - 1
            /\ \A n \in 1..Len(inv[i].log) :
                  /\ inv[i].log[n][2] = inv[i].advisories[n].advisoryid
                  /\ Succeeded(inv[i].log[n]) \/ Failed(inv[i].log[n])
                  /\ Succeeded(inv[i].log[n]) =>
                        \E d \in DocsOf(inv[i].advisories[n].advisoryid) :
                            WriteDocs[d] = Enriched[inv[i].advisories[n]].val
            /\ Ended(i) => inv[i].k = Len(inv[i].advisories) + 1

\* an invocation has ended in which a record failed and a later one was stored
C1_Witness ==
    \E i \in Invocations :
        /\ inv[i].pc = "done"
        /\ InLoop(i)
        /\ \E n, m \in 1..Len(inv[i].log) :
              /\ n < m
              /\ Failed(inv[i].log[n])
              /\ Succeeded(inv[i].log[m])
              /\ StoredOnce(inv[i].advisories[m])

FetchFailure(i) ==
    \E n \in 1..Len(inv[i].log) : inv[i].log[n] = <<"Error fetching advisories">>

SuccessBody == [message |-> "Advisories processed"]

\* C2: a write-trigger invocation whose fetch failed responds with a server
\* error and not with the success body.
C2_FetchFailureIsServerError ==
    \A i \in Invocations :
        (inv[i].handler = "write" /\ Ended(i) /\ FetchFailure(i)) =>
            /\ inv[i].res.status >= 500
            /\ inv[i].res.body # SuccessBody

\* the invocation ran the pipeline to the end and every upsert succeeded
FullRun(i) ==
    /\ inv[i].pc = "done"
    /\ InLoop(i)
    /\ \A n \in 1..Len(inv[i].log) : Succeeded(inv[i].log[n])

NoDuplicates == \A n, m \in 1..Len(WriteDocs) :
    WriteDocs[n].advisoryid = WriteDocs[m].advisoryid => n = m

\* every record some invocation has upserted is stored once, as its enrichment
UpsertedStoredOnce ==
    \A i \in Invocations : \A n \in 1..Len(inv[i].log) :
        (InLoop(i) /\ Succeeded(inv[i].log[n])) => StoredOnce(inv[i].advisories[n])

\* C3: with invocations in sequence on an unchanged batch, from any initial
\* store: after a run of the pipeline the store holds one record per
\* advisoryid, each upserted record equal to its enrichment with nothing kept
\* of the version stored before, and once a run has upserted every relevant
\* record no step of a later run changes the store.
C3_IngestionIdempotent ==
    [][/\ NoDuplicates'
       /\ UpsertedStoredOnce'
       /\ (\E i \in Invocations : FullRun(i)) => store' = store]_vars

\* two runs in sequence over two relevant records, from a store that held an
\* earlier version of one of them: the second run only found records to replace
C3_Witness ==
    /\ FullRun(1)
    /\ FullRun(2)
    /\ Len(Relevant) >= 2
    /\ \E n \in 1..Len(WriteDocs) : WriteDocs[n].advisoryid = 99
    /\ \A n \in 1..Len(inv[2].log) : inv[2].log[n][1] = "Updated advisory"
    /\ \A n \in 1..Len(Relevant) : StoredOnce(Relevant[n])

\* the relevant records that some invocation has upserted
UpsertedRecords ==
    SelectSeq(Relevant,
              LAMBDA a : \E i \in Invocations : \E n \in 1..Len(inv[i].log) :
                  /\ InLoop(i)
                  /\ Succeeded(inv[i].log[n])
                  /\ inv[i].log[n][2] = a.advisoryid)

\* the collection after one invocation alone has upserted the records
RECURSIVE RunAlone(_, _)
RunAlone(docs, advisories) ==
    IF advisories = <<>> THEN docs
    ELSE RunAlone(replaceOne(docs, Enriched[Head(advisories)].val).docs, Tail(advisories))

Quiet == \A i \in Invocations : inv[i].pc \in {"idle", "done"}

\* C4: however the steps of overlapping write-trigger invocations interleave,
\* the store never holds two records of one advisoryid, every record an
\* invocation upserted is stored once as its enrichment, and when all
\* invocations have ended the store holds what one invocation alone,
\* upserting the same records, leaves in it.
C4_OverlapSafe ==
    /\ NoDuplicates
    /\ UpsertedStoredOnce
    /\ Quiet =>
          \E docs \in InitialDocuments :
              /\ Range(WriteDocs) = Range(RunAlone(docs, UpsertedRecords))
              /\ Len(WriteDocs) = Len(RunAlone(docs, UpsertedRecords))

\* two invocations have ended, each of which inserted a record that the other
\* found already stored
C4_Witness ==
    /\ Quiet
    /\ FullRun(1)
    /\ FullRun(2)
    /\ Len(Relevant) >= 2
    /\ inv[1].log[1][1] = "Inserted advisory"
    /\ inv[1].log[2][1] = "Updated advisory"
    /\ inv[2].log[1][1] = "Updated advisory"
    /\ inv[2].log[2][1] = "Inserted advisory"

\* C5: a read that succeeds returns every record that write-trigger
\* invocations ended before it have upserted.
C5_ReadReturnsUpserted ==
    [][\A i \in Invocations :
          (inv[i].pc = "finding" /\ inv'[i].res.status = 200) =>
              \A j \in Invocations : \A n \in 1..Len(inv[j].log) :
                  (inv[j].pc = "done" /\ InLoop(j) /\ Succeeded(inv[j].log[n])) =>
                      \E d \in 1..Len(inv'[i].res.body.advisories) :
                          inv'[i].res.body.advisories[d] = Enriched[inv[j].advisories[n]].val]_vars

\* C6: no invocation ends with its client open, on any exit path, and a
\* client belongs to the one invocation that is running with it.
C6_ClientReleased ==
    \A i \in Invocations :
        /\ inv[i].pc = "done" => inv[i].client \in {"none", "closed"}
        /\ inv[i].client = "open" =>
              inv[i].pc \in {"connecting", "fetching", "upserting", "finding", "closing"}
        /\ inv[i].pc \in {"connecting", "fetching", "upserting", "finding", "closing"} =>
              inv[i].client = "open"

\* a write-trigger invocation ended, its client closed, after a record failed
C6_Witness ==
    \E i \in Invocations :
        /\ inv[i].pc = "done"
        /\ inv[i].client = "closed"
        /\ inv[i].handler = "write"
        /\ \E n \in 1..Len(inv[i].log) : Failed(inv[i].log[n])

\* the requester sees a failure: an error status, or the handler's promise
\* rejected, which the platform answers with an error
FailureVisible(i) == inv[i].rejected \/ inv[i].res.status >= 400

\* nothing of the invocation touched the store or the provider
NeverStarted(i) ==
    /\ inv[i].client = "none"
    /\ inv[i].k = 0
    /\ inv[i].log = <<>>
    /\ \E docs \in InitialDocuments : store = [c \in Collections |-> docs]

\* C9 as stated: with the connection string absent, every invocation of
\* either handler creates no client, fetches nothing, performs no store
\* operation and produces a failure response.
C9_AsStated ==
    \A i \in Invocations :
        (~mongoUri /\ inv[i].pc # "idle") => (NeverStarted(i) /\ FailureVisible(i))

\* C9, amended: with the connection string absent, every invocation of either
\* handler ends having created no client, fetched nothing and performed no
\* store operation, and every invocation other than an OPTIONS preflight
\* produces a failure response.
C9_ConfigMissing ==
    \A i \in Invocations :
        (~mongoUri /\ inv[i].pc # "idle") =>
            /\ inv[i].pc = "done"
            /\ NeverStarted(i)
            /\ inv[i].method # "OPTIONS" => FailureVisible(i)

\* with the connection string absent, a write trigger and a read have ended
C9_Witness ==
    /\ ~mongoUri
    /\ \E i, j \in Invocations :
          /\ inv[i].handler = "write" /\ inv[i].method = "POST" /\ inv[i].pc = "done"
          /\ inv[j].handler = "read" /\ inv[j].method = "GET" /\ inv[j].pc = "done"
          /\ FailureVisible(i) /\ FailureVisible(j)

\* the text before the first '-' of a date
YearPart(date) == SubSeq(date, 1, IndexFrom(date, "-", 1) - 1)

\* the year of the advisory's start time, as its text gives it
StartYearText(doc) ==
    IF getUTCFullYear(doc.advisorystarttime) = NaN THEN <<"N","a","N">>
    ELSE SubSeq(doc.advisorystarttime, 1, 4)

\* C10: in every stored record, each window's start and end dates and
\* date-times carry the year of the record's advisorystarttime, whatever
\* months the window names.
C10_ReferenceYear ==
    \A n \in 1..Len(WriteDocs) : \A w \in 1..Len(WriteDocs[n].parsedDetails) :
        LET window == WriteDocs[n].parsedDetails[w]
        IN  /\ YearPart(window.startDate) = StartYearText(WriteDocs[n])
            /\ YearPart(window.endDate) = StartYearText(WriteDocs[n])
            /\ YearPart(window.startDatetime) = StartYearText(WriteDocs[n])
            /\ YearPart(window.endDatetime) = StartYearText(WriteDocs[n])

\* a stored record of 2024 with a window from 31 December to 1 January
C10_Witness ==
    \E n \in 1..Len(WriteDocs) :
        /\ WriteDocs[n].advisoryid = 103
        /\ Len(WriteDocs[n].parsedDetails) = 1
        /\ WriteDocs[n].parsedDetails[1].startDate = <<"2","0","2","4","-","1","2","-","3","1">>
        /\ WriteDocs[n].parsedDetails[1].endDate = <<"2","0","2","4","-","0","1","-","0","1">>

\* ------------------------------------------------------------------------
\* Properties of the parsers
\* ------------------------------------------------------------------------

\* the windows of the segments that are occurrences whose parts both parse
RECURSIVE WindowsOf(_, _)
WindowsOf(segs, year) ==
    IF segs = <<>> THEN <<>>
    ELSE (IF Head(segs).occurrence /\ Head(segs).parses
          THEN <<Window(Head(segs).type, parseDatePart(Head(segs).datePart, year),
                        parseTimePart(Head(segs).timePart)).val>>
          ELSE <<>>) \o WindowsOf(Tail(segs), year)

\* C7: parseDetails never throws and returns exactly the windows of the
\* occurrences on which both sub-parsers succeed, in source order; an
\* occurrence on which one fails is left out and the later ones are kept.
C7_SkipAndContinue ==
    (call.fn = "parseDetails" /\ outcome # Pending) =>
        /\ outcome.ok
        /\ outcome.val = WindowsOf(call.segs, call.year)
        /\ \A n \in 1..Len(call.segs) :
              call.segs[n].occurrence =>
                  (call.segs[n].parses <=>
                      /\ parseDatePart(call.segs[n].datePart, call.year).ok
                      /\ parseTimePart(call.segs[n].timePart).ok)

\* two well-formed windows around a malformed one gave the two, in order
C7_Witness ==
    /\ call.fn = "parseDetails"
    /\ call.segs = <<WindowTwoMonths, WindowLongMonth, WindowOneMonth>>
    /\ call.year = 2024
    /\ outcome # Pending
    /\ Len(outcome.val) = 2
    /\ outcome.val[1].startDatetime = <<"2","0","2","4","-","0","6","-","0","3","T","1","2",":","0","0",":","0","0","Z">>
    /\ outcome.val[1].endDatetime = <<"2","0","2","4","-","0","7","-","0","4","T","1","8",":","0","0",":","0","0","Z">>
    /\ outcome.val[2].type = <<"B","a","c","k","u","p"," ","L","a","u","n","c","h"," ","D","a","y"," ","(","1",")">>
    /\ outcome.val[2].startDatetime = <<"2","0","2","4","-","0","6","-","0","5","T","1","3",":","0","0",":","0","0","Z">>
    /\ outcome.val[2].endDatetime = <<"2","0","2","4","-","0","6","-","1","6","T","1","9",":","0","0",":","0","0","Z">>

\* a day, zero-padded to two digits
TwoDigitDay(d) == IF Len(d) = 1 THEN <<"0">> \o d ELSE d

\* YYYY-MM-DD of a year, a month of the twelve and a day
ExpectedDate(y, m, d) ==
    YearText(y) \o <<"-">> \o MonthNumberText[m] \o <<"-">> \o TwoDigitDay(d)

\* C8: parseDatePart gives (y-MM1-DD1, y-MM2-DD2) for "d1 m1/d2 m2", each
\* side through its own month, and (y-MM-DD1, y-MM-DD2) for "d1/d2 m", in
\* any letter case, zero-padded; it fails when the fragment has not exactly
\* two parts or a month is not one of the twelve abbreviations.
C8_DateRange ==
    (call.fn = "parseDatePart" /\ outcome # Pending) =>
        CASE call.shape = "two months" /\ call.m1 <= 12 /\ call.m2 <= 12 ->
               outcome = Return(<<ExpectedDate(call.year, call.m1, call.d1),
                                  ExpectedDate(call.year, call.m2, call.d2)>>)
          [] call.shape = "one month" /\ call.m2 <= 12 ->
               outcome = Return(<<ExpectedDate(call.year, call.m2, call.d1),
                                  ExpectedDate(call.year, call.m2, call.d2)>>)
          [] OTHER -> ~outcome.ok

\* "3 dec/05 Jan" of 1999 gave 1999-12-03 and 1999-01-05
C8_Witness ==
    /\ call.fn = "parseDatePart"
    /\ call.shape = "two months"
    /\ DateText(call) = <<"3"," ","d","e","c","/","0","5"," ","J","a","n">>
    /\ call.year = 1999
    /\ outcome = Return(<<<<"1","9","9","9","-","1","2","-","0","3">>, <<"1","9","9","9","-","0","1","-","0","5">>>>)

====
